---- MODULE Spec2Model ----
(***************************************************************************)
(* Model of the simple blocks of leansdr (src/src/leansdr/generic.h).      *)
(* Each block is modelled on its own: its fields, the streams (pipebuf)   *)
(* it is bound to, the environment that feeds and drains those streams,   *)
(* and its run() method.  A block's specification leaves the variables of *)
(* the other blocks alone; blk names the block a behaviour runs.  The     *)
(* pipeline buffer_reader -> decimator -> buffer_writer composes the      *)
(* run() methods of three blocks over two shared streams.                 *)
(***************************************************************************)
EXTENDS Integers, Sequences, FiniteSets, TLC

\* ------------------------------------------------------------------------
\* Bounds of the model
\* ------------------------------------------------------------------------
MaxElem == 1        \* element values are 0..MaxElem
MaxD == 3           \* decimation factors are 1..MaxD
StreamCap == 4      \* capacity (in elements) of every bounded stream
MaxFeed == 5        \* elements the environment appends to one input stream
MaxWidth == 8       \* element widths (sizeof) are 1..MaxWidth
RateFeed == 3       \* values the environment appends to each rate_estimator input
RateCap == 2        \* capacity of the rate_estimator output stream
PrintFeed == 7      \* elements the environment appends to the file_printer input
PrintCap == 7       \* capacity of the file_printer input stream
MaxScale == 2       \* file_printer scales are 1..MaxScale
MaxCount == 10      \* buffer_reader sources hold 0..MaxCount elements
BrCap == 10         \* capacity of the buffer_reader output stream
MaxDst == 3         \* buffer_writer destinations hold 0..MaxDst elements
BwFeed == 5         \* elements fed to a buffer_writer
IcCap == 256        \* capacity of the itemcounter input stream
IcOutCap == 2       \* capacity of the itemcounter output stream
IcFeed == 4         \* chunks of elements fed to an itemcounter
FwFeed == 5         \* elements fed to a file_writer
CpFeed == 5         \* elements fed to a file_carrayprinter
PipeN == 6          \* pipeline sources hold 0..PipeN elements
PipeM == 3          \* pipeline destinations hold 0..PipeM elements
PipeCap == 4        \* pipeline streams hold up to PipeCap elements

\* ------------------------------------------------------------------------
\* Program constants
\* ------------------------------------------------------------------------
BufSize == 256      \* char buf[256] in file_printer::run

Elems == 0..MaxElem

Min(a, b) == IF a <= b THEN a ELSE b

Max(a, b) == IF a >= b THEN a ELSE b

RECURSIVE SumSeq(_)
SumSeq(s) == IF s = <<>> THEN 0 ELSE Head(s) + SumSeq(Tail(s))

\* ------------------------------------------------------------------------
\* Stream endpoints (pipebuf / pipereader / pipewriter).  The buffer is a
\* FIFO of elements with a fixed capacity.
\* ------------------------------------------------------------------------
readable(buf) == Len(buf)

writable(buf) == StreamCap - Len(buf)

read(buf, n) == SubSeq(buf, n + 1, Len(buf))

written(buf, items) == buf \o items

VARIABLES
  \* decimator
  dec_d,          \* decimator::d
  dec_in,         \* decimator::in  (contents of the input pipebuf)
  dec_out,        \* decimator::out (contents of the output pipebuf)
  dec_fed,        \* history: every element ever appended to dec_in
  dec_fwd,        \* history: every element ever forwarded to dec_out
  dec_last,       \* history: what the latest run() saw and did
  \* serializer
  ser_win,        \* sizeof(Tin)
  ser_wout,       \* sizeof(Tout)
  ser_pc,         \* "new" before the constructor, then "ok" or "failed"
  ser_nin,        \* serializer::nin
  ser_nout,       \* serializer::nout
  ser_in,         \* serializer::in  (elements are sequences of bytes)
  ser_out,        \* serializer::out (elements are sequences of bytes)
  ser_fed,        \* history: every element ever appended to ser_in
  ser_prod,       \* history: every element ever produced into ser_out
  ser_last,       \* history: what the latest run() saw and did
  \* file_reader
  fr_w,           \* sizeof(T)
  fr_loop,        \* file_reader::loop
  fr_out,         \* file_reader::out (each element is its number of bytes)
  fr_pc,          \* position in run(): "idle", "again", "lseek", "partial", "fatal"
  fr_size,        \* local size
  fr_nr,          \* local nr
  fr_remain,      \* local remain
  fr_eof,         \* history: with loop off, some read has returned zero
  fr_inv,         \* history: what the current or latest run() saw and did
  \* rate_estimator
  re_sample_size, \* rate_estimator::sample_size
  re_num,         \* rate_estimator::num
  re_den,         \* rate_estimator::den
  re_rate,        \* rate_estimator::rate (values are ratios [n, d])
  re_acc_num,     \* rate_estimator::acc_num
  re_acc_den,     \* rate_estimator::acc_den
  re_fedNum,      \* history: every value ever appended to re_num
  re_fedDen,      \* history: every value ever appended to re_den
  re_emitted,     \* history: every ratio ever emitted, with the pairs consumed by then
  re_last,        \* history: what the latest run() saw and did
  \* file_printer
  fp_decimation,  \* file_printer::decimation
  fp_scale,       \* file_printer::scale
  fp_in,          \* file_printer::in
  fp_phase,       \* file_printer::phase
  fp_pc,          \* position in run(): "idle", "loop", "fatal"
  fp_n,           \* local n
  fp_i,           \* local pin - in.rd()
  fp_fed,         \* history: number of elements ever appended to fp_in
  fp_writes,      \* history: every write issued: element position, value, length
  fp_last,         \* history: what the current or latest run() saw and did
  \* buffer_reader
  br_count,       \* buffer_reader::count
  br_data,        \* buffer_reader::data (the source)
  br_pos,         \* buffer_reader::pos
  br_out,         \* buffer_reader::out
  br_prod,        \* history: every element ever produced into br_out
  br_last,         \* history: what the latest run() saw and did
  \* buffer_writer
  bw_count,       \* buffer_writer::count
  bw_data,        \* buffer_writer::data (the destination; 0 = never written)
  bw_pos,         \* buffer_writer::pos
  bw_in,          \* buffer_writer::in
  bw_fed,         \* history: number of elements ever fed into bw_in
  bw_idx,         \* history: destination indices (0-based) written, in order
  bw_last,         \* history: what the latest run() saw and did
  \* itemcounter
  ic_bits,        \* width in bits of the unsigned output type Tout
  ic_in,          \* itemcounter::in
  ic_out,         \* itemcounter::out
  ic_fed,         \* history: number of chunks ever fed into ic_in
  ic_consumed,    \* history: number of input elements ever consumed
  ic_sum,         \* history: sum of all values ever emitted
  ic_last,         \* history: what the latest run() saw and did
  \* file_writer
  fw_width,       \* sizeof(T)
  fw_in,          \* file_writer::in
  fw_fed,         \* history: number of elements ever fed into fw_in
  fw_pc,          \* "idle", or "fatal" once fatal() ended the process
  fw_last,         \* history: what the latest run() saw and did
  \* file_carrayprinter
  cp_fout,        \* file_carrayprinter::fout is not NULL
  cp_scale,       \* file_carrayprinter::scale
  cp_in,          \* file_carrayprinter::in
  cp_fed,         \* history: number of elements ever fed into cp_in
  cp_last,         \* history: what the latest run() saw and did
  \* pipeline buffer_reader -> decimator -> buffer_writer
  pl_cap,         \* capacity of the two streams
  pl_src,         \* buffer_reader::data, of buffer_reader::count elements
  pl_rpos,        \* buffer_reader::pos
  pl_s1,          \* stream from the buffer_reader to the decimator
  pl_d,           \* decimator::d
  pl_s2,          \* stream from the decimator to the buffer_writer
  pl_dst,         \* buffer_writer::data, of buffer_writer::count elements
  pl_wpos,         \* buffer_writer::pos
  \* the block under study
  blk             \* name of the block this behaviour runs

decVars == <<dec_d, dec_in, dec_out, dec_fed, dec_fwd, dec_last>>

serVars == <<ser_win, ser_wout, ser_pc, ser_nin, ser_nout, ser_in, ser_out,
             ser_fed, ser_prod, ser_last>>

frVars == <<fr_w, fr_loop, fr_out, fr_pc, fr_size, fr_nr, fr_remain, fr_eof, fr_inv>>

reVars == <<re_sample_size, re_num, re_den, re_rate, re_acc_num, re_acc_den,
            re_fedNum, re_fedDen, re_emitted, re_last>>

fpVars == <<fp_decimation, fp_scale, fp_in, fp_phase, fp_pc, fp_n, fp_i,
            fp_fed, fp_writes, fp_last>>

brVars == <<br_count, br_data, br_pos, br_out, br_prod, br_last>>

bwVars == <<bw_count, bw_data, bw_pos, bw_in, bw_fed, bw_idx, bw_last>>

icVars == <<ic_bits, ic_in, ic_out, ic_fed, ic_consumed, ic_sum, ic_last>>

fwVars == <<fw_width, fw_in, fw_fed, fw_pc, fw_last>>

cpVars == <<cp_fout, cp_scale, cp_in, cp_fed, cp_last>>

plVars == <<pl_cap, pl_src, pl_rpos, pl_s1, pl_d, pl_s2, pl_dst, pl_wpos>>

vars == <<decVars, serVars, frVars, reVars, fpVars, brVars, bwVars, icVars, fwVars,
          cpVars, plVars, blk>>

\* ------------------------------------------------------------------------
\* decimator
\* ------------------------------------------------------------------------
DecimatorNoRun == [ran |-> FALSE, R |-> 0, W |-> 0, nfwd |-> 0, ncons |-> 0]

DecimatorIdle ==
  /\ dec_d = 1
  /\ dec_in = <<>>
  /\ dec_out = <<>>
  /\ dec_fed = <<>>
  /\ dec_fwd = <<>>
  /\ dec_last = DecimatorNoRun

DecimatorInit ==
  /\ dec_d \in 1..MaxD
  /\ dec_in = <<>>
  /\ dec_out = <<>>
  /\ dec_fed = <<>>
  /\ dec_fwd = <<>>
  /\ dec_last = DecimatorNoRun

\* Upstream appends one element to the input stream.
DecimatorFeed ==
  /\ Len(dec_fed) < MaxFeed
  /\ writable(dec_in) >= 1
  /\ \E x \in Elems :
       /\ dec_in' = written(dec_in, <<x>>)
       /\ dec_fed' = Append(dec_fed, x)
  /\ UNCHANGED <<dec_d, dec_out, dec_fwd, dec_last>>

\* Downstream consumes one element of the output stream.
DecimatorDrain ==
  /\ readable(dec_out) >= 1
  /\ dec_out' = read(dec_out, 1)
  /\ UNCHANGED <<dec_d, dec_in, dec_fed, dec_fwd, dec_last>>

\* Faulty variant: the output capacity is ignored.
DecimatorCountNoCap(R, W, d) == R \div d

\* count = min(in.readable()/d, out.writable())
DecimatorCount(R, W, d) == Min(R \div d, W)

\* Faulty variant: forwards the last element of each group instead of the first.
DecimatorPickLast(buf, count, d) == [k \in 1..count |-> buf[k * d]]

\* for ( ; pin<pend; pin+=d, ++pout ) *pout = *pin;
DecimatorPick(buf, count, d) == [k \in 1..count |-> buf[(k - 1) * d + 1]]

\* Faulty variant: one element is consumed per element forwarded.
DecimatorConsumedCount(count, d) == count

\* in.read(count*d)
DecimatorConsumed(count, d) == count * d

\* decimator::run
DecimatorRun ==
  LET count == DecimatorCount(readable(dec_in), writable(dec_out), dec_d)
      items == DecimatorPick(dec_in, count, dec_d)
  IN /\ dec_in' = read(dec_in, DecimatorConsumed(count, dec_d))
     /\ dec_out' = written(dec_out, items)
     /\ dec_fwd' = dec_fwd \o items
     /\ dec_last' = [ran |-> TRUE,
                     R |-> readable(dec_in),
                     W |-> writable(dec_out),
                     nfwd |-> Len(dec_out') - Len(dec_out),
                     ncons |-> Len(dec_in) - Len(dec_in')]
     /\ UNCHANGED <<dec_d, dec_fed>>

\* ------------------------------------------------------------------------
\* serializer
\* ------------------------------------------------------------------------
SerializerNoRun ==
  [ran |-> FALSE, R |-> 0, W |-> 0, ncons |-> 0, nprod |-> 0, Rafter |-> 0, Wafter |-> 0]

SerializerIdle ==
  /\ ser_win = 1
  /\ ser_wout = 1
  /\ ser_pc = "new"
  /\ ser_nin = 0
  /\ ser_nout = 0
  /\ ser_in = <<>>
  /\ ser_out = <<>>
  /\ ser_fed = <<>>
  /\ ser_prod = <<>>
  /\ ser_last = SerializerNoRun

SerializerInit ==
  /\ ser_win \in 1..MaxWidth
  /\ ser_wout \in 1..MaxWidth
  /\ ser_pc = "new"
  /\ ser_nin = 0
  /\ ser_nout = 0
  /\ ser_in = <<>>
  /\ ser_out = <<>>
  /\ ser_fed = <<>>
  /\ ser_prod = <<>>
  /\ ser_last = SerializerNoRun

\* nin(max((size_t)1,sizeof(Tin)/sizeof(Tout)))
SerializerNin(win, wout) == Max(1, win \div wout)

\* nout(max((size_t)1,sizeof(Tout)/sizeof(Tin)))
SerializerNout(win, wout) == Max(1, wout \div win)

\* if ( nin*sizeof(Tin) != nout*sizeof(Tout) ) fail(...)
SerializerIncompatible(nin, nout, win, wout) == nin * win # nout * wout

\* serializer::serializer
SerializerCtor ==
  /\ ser_pc = "new"
  /\ ser_nin' = SerializerNin(ser_win, ser_wout)
  /\ ser_nout' = SerializerNout(ser_win, ser_wout)
  /\ ser_pc' = IF SerializerIncompatible(ser_nin', ser_nout', ser_win, ser_wout)
               THEN "failed" ELSE "ok"
  /\ UNCHANGED <<ser_win, ser_wout, ser_in, ser_out, ser_fed, ser_prod, ser_last>>

\* The bytes of the x-th input element (x = 0, 1, ...) of width w: each byte
\* is its offset in the input byte stream.
SerializerElem(x, w) == [j \in 1..w |-> x * w + j]

RECURSIVE Flatten(_)
Flatten(ss) == IF ss = <<>> THEN <<>> ELSE Head(ss) \o Flatten(Tail(ss))

\* Upstream appends one element to the input stream.
SerializerFeed ==
  /\ ser_pc = "ok"
  /\ Len(ser_fed) < MaxFeed
  /\ writable(ser_in) >= 1
  /\ LET x == Len(ser_fed)
     IN /\ ser_in' = written(ser_in, <<SerializerElem(x, ser_win)>>)
        /\ ser_fed' = Append(ser_fed, SerializerElem(x, ser_win))
  /\ UNCHANGED <<ser_win, ser_wout, ser_pc, ser_nin, ser_nout, ser_out, ser_prod, ser_last>>

\* Downstream consumes one element of the output stream.
SerializerDrain ==
  /\ ser_pc = "ok"
  /\ readable(ser_out) >= 1
  /\ ser_out' = read(ser_out, 1)
  /\ UNCHANGED <<ser_win, ser_wout, ser_pc, ser_nin, ser_nout, ser_in, ser_fed, ser_prod, ser_last>>

\* memcpy(out.wr(), in.rd(), nout*sizeof(Tout)): the first nout*wout bytes
\* of the readable region, seen as nout output elements.
SerializerCopy(in, nout, wout) ==
  LET bytes == SubSeq(Flatten(in), 1, nout * wout)
  IN [k \in 1..nout |-> SubSeq(bytes, (k - 1) * wout + 1, k * wout)]

\* Faulty variant: the loop stops one group early on the input side.
SerializerMoreOffByOne(in, out, nin, nout) ==
  readable(in) > nin /\ writable(out) >= nout

\* while ( in.readable()>=nin && out.writable()>=nout )
SerializerMore(in, out, nin, nout) ==
  readable(in) >= nin /\ writable(out) >= nout

RECURSIVE SerializerLoop(_, _, _, _, _)
SerializerLoop(in, out, nin, nout, wout) ==
  IF SerializerMore(in, out, nin, nout)
  THEN SerializerLoop(read(in, nin), written(out, SerializerCopy(in, nout, wout)),
                      nin, nout, wout)
  ELSE <<in, out>>

\* serializer::run
SerializerRun ==
  /\ ser_pc = "ok"
  /\ LET res == SerializerLoop(ser_in, ser_out, ser_nin, ser_nout, ser_wout)
         nprod == Len(res[2]) - Len(ser_out)
     IN /\ ser_in' = res[1]
        /\ ser_out' = res[2]
        /\ ser_prod' = ser_prod \o SubSeq(res[2], Len(ser_out) + 1, Len(res[2]))
        /\ ser_last' = [ran |-> TRUE,
                        R |-> readable(ser_in),
                        W |-> writable(ser_out),
                        ncons |-> Len(ser_in) - Len(res[1]),
                        nprod |-> nprod,
                        Rafter |-> readable(res[1]),
                        Wafter |-> writable(res[2])]
  /\ UNCHANGED <<ser_win, ser_wout, ser_pc, ser_nin, ser_nout, ser_fed>>

\* ------------------------------------------------------------------------
\* file_reader.  The descriptor is the environment: a read of `size` bytes
\* returns any result in -1..size, an lseek succeeds or fails.
\* ------------------------------------------------------------------------
FileReaderNoRun ==
  [state |-> "none", got |-> 0, zero |-> FALSE, bad2 |-> FALSE, n2 |-> 0,
   committed |-> 0, out0 |-> 0, any |-> FALSE, first |-> 0, asks |-> <<>>]

\* History: one more call of read(fdin, out.wr(), size) returned nr.
FileReaderNote(inv, nr) ==
  [inv EXCEPT !.any = TRUE, !.first = IF inv.any THEN @ ELSE nr]

FileReaderIdle ==
  /\ fr_w = 1
  /\ fr_loop = FALSE
  /\ fr_out = <<>>
  /\ fr_pc = "idle"
  /\ fr_size = 0
  /\ fr_nr = 0
  /\ fr_remain = 0
  /\ fr_eof = FALSE
  /\ fr_inv = FileReaderNoRun

FileReaderInit ==
  /\ fr_w \in 1..MaxWidth
  /\ fr_loop \in BOOLEAN
  /\ fr_out = <<>>
  /\ fr_pc = "idle"
  /\ fr_size = 0
  /\ fr_nr = 0
  /\ fr_remain = 0
  /\ fr_eof = FALSE
  /\ fr_inv = FileReaderNoRun

\* Downstream consumes one element of the output stream (between runs).
FileReaderDrain ==
  /\ fr_pc = "idle"
  /\ readable(fr_out) >= 1
  /\ fr_out' = read(fr_out, 1)
  /\ UNCHANGED <<fr_w, fr_loop, fr_pc, fr_size, fr_nr, fr_remain, fr_eof, fr_inv>>

\* size_t size = out.writable() * sizeof(T); if ( ! size ) return;
FileReaderBegin ==
  /\ fr_pc = "idle"
  /\ fr_size' = writable(fr_out) * fr_w
  /\ fr_nr' = 0
  /\ fr_remain' = 0
  /\ fr_pc' = IF fr_size' = 0 THEN "idle" ELSE "again"
  /\ fr_inv' = [FileReaderNoRun EXCEPT
                  !.state = IF fr_size' = 0 THEN "returned" ELSE "running",
                  !.out0 = Len(fr_out)]
  /\ UNCHANGED <<fr_w, fr_loop, fr_out, fr_eof>>

\* Faulty variant: no completion of a torn element.
FileReaderRemainNone(nr, w) == 0

\* size_t partial = nr % sizeof(T);
\* size_t remain = partial ? sizeof(T)-partial : 0;
FileReaderRemain(nr, w) ==
  LET partial == nr % w IN IF partial # 0 THEN w - partial ELSE 0

\* out.written(nr / sizeof(T))
FileReaderElements(nr, w) == nr \div w

\* Faulty variant: end-of-data restarts the read whatever the loop option says.
FileReaderOnZeroAlwaysLoop(loop) == "lseek"

\* if ( ! nr ) { if ( ! loop ) return; ... lseek ... goto again; }
FileReaderOnZero(loop) == IF loop THEN "lseek" ELSE "idle"

\* The commit that ends run(): out.written(nr / sizeof(T)).
FileReaderCommit(nr) ==
  /\ fr_out' = written(fr_out, [k \in 1..FileReaderElements(nr, fr_w) |-> fr_w])
  /\ fr_pc' = "idle"

\* again: ssize_t nr = read(fdin, out.wr(), size);
FileReaderRead ==
  /\ fr_pc = "again"
  /\ \E nr \in -1..fr_size :
       IF nr < 0 THEN
         /\ fr_pc' = "fatal"
         /\ fr_inv' = [FileReaderNote(fr_inv, nr) EXCEPT !.state = "fatal"]
         /\ UNCHANGED <<fr_out, fr_nr, fr_remain, fr_eof>>
       ELSE IF nr = 0 THEN
         /\ fr_pc' = FileReaderOnZero(fr_loop)
         /\ fr_inv' = [FileReaderNote(fr_inv, nr) EXCEPT
                         !.zero = TRUE,
                         !.state = IF fr_pc' = "idle" THEN "returned" ELSE @]
         /\ fr_eof' = (fr_eof \/ ~fr_loop)
         /\ UNCHANGED <<fr_out, fr_nr, fr_remain>>
       ELSE
         /\ fr_nr' = nr
         /\ fr_remain' = FileReaderRemain(nr, fr_w)
         /\ IF fr_remain' = 0
            THEN /\ FileReaderCommit(nr)
                 /\ fr_inv' = [FileReaderNote(fr_inv, nr) EXCEPT
                                 !.got = @ + nr,
                                 !.state = "committed",
                                 !.committed = Len(fr_out') - Len(fr_out)]
            ELSE /\ fr_pc' = "partial"
                 /\ fr_inv' = [FileReaderNote(fr_inv, nr) EXCEPT !.got = @ + nr]
                 /\ UNCHANGED fr_out
         /\ UNCHANGED fr_eof
  /\ UNCHANGED <<fr_w, fr_loop, fr_size>>

\* off_t res = lseek(fdin, 0, SEEK_SET); if ( res == (off_t)-1 ) fatal("lseek");
FileReaderLseek ==
  /\ fr_pc = "lseek"
  /\ \E res \in {-1, 0} :
       /\ fr_pc' = IF res = -1 THEN "fatal" ELSE "again"
       /\ fr_inv' = [fr_inv EXCEPT !.state = IF res = -1 THEN "fatal" ELSE @]
  /\ UNCHANGED <<fr_w, fr_loop, fr_out, fr_size, fr_nr, fr_remain, fr_eof>>

\* Faulty variant: the completion stops after one read, whatever it delivered.
FileReaderLeftNone(remain, nr2) == 0

\* remain -= nr2;
FileReaderLeft(remain, nr2) == remain - nr2

\* while ( remain ) { nr2 = read(fdin, (char*)out.wr()+nr, remain); ... }
FileReaderPartial ==
  /\ fr_pc = "partial"
  /\ \E nr2 \in -1..fr_remain :
       IF nr2 <= 0 THEN
         /\ fr_pc' = "fatal"
         /\ fr_inv' = [fr_inv EXCEPT !.state = "fatal", !.bad2 = TRUE, !.n2 = @ + 1,
                                      !.asks = Append(@, fr_remain)]
         /\ UNCHANGED <<fr_out, fr_nr, fr_remain>>
       ELSE
         /\ fr_nr' = fr_nr + nr2
         /\ fr_remain' = FileReaderLeft(fr_remain, nr2)
         /\ IF fr_remain' = 0
            THEN /\ FileReaderCommit(fr_nr')
                 /\ fr_inv' = [fr_inv EXCEPT
                                 !.got = @ + nr2,
                                 !.n2 = @ + 1,
                                 !.asks = Append(@, fr_remain),
                                 !.state = "committed",
                                 !.committed = Len(fr_out') - Len(fr_out)]
            ELSE /\ fr_pc' = "partial"
                 /\ fr_inv' = [fr_inv EXCEPT !.got = @ + nr2, !.n2 = @ + 1,
                                              !.asks = Append(@, fr_remain)]
                 /\ UNCHANGED fr_out
  /\ UNCHANGED <<fr_w, fr_loop, fr_size, fr_eof>>

\* ------------------------------------------------------------------------
\* rate_estimator.  sample_size is a public field (10000 after construction)
\* that the application sets before running; the model draws it from
\* SampleSizes.  A ratio (float)acc_num / acc_den is kept as the pair [n, d].
\* ------------------------------------------------------------------------
SampleSizes == {2, 100}

NumVals == {0, 1}

DenVals == {0, 1, 50}

\* The denominator stream is a pipebuf<int>: with the small threshold the
\* values fed include a negative one.
DenValsOf(sample_size) == IF sample_size = 100 THEN DenVals ELSE DenVals \cup {-1}

RateNoRun ==
  [ran |-> FALSE, W |-> 0, Rn |-> 0, Rd |-> 0, cnum |-> 0, cden |-> 0,
   sumn |-> 0, sumd |-> 0, accn0 |-> 0, accd0 |-> 0, nemit |-> 0]

RateEstimatorIdle ==
  /\ re_sample_size = 100
  /\ re_num = <<>>
  /\ re_den = <<>>
  /\ re_rate = <<>>
  /\ re_acc_num = 0
  /\ re_acc_den = 0
  /\ re_fedNum = <<>>
  /\ re_fedDen = <<>>
  /\ re_emitted = <<>>
  /\ re_last = RateNoRun

RateEstimatorInit ==
  /\ re_sample_size \in SampleSizes
  /\ re_num = <<>>
  /\ re_den = <<>>
  /\ re_rate = <<>>
  /\ re_acc_num = 0
  /\ re_acc_den = 0
  /\ re_fedNum = <<>>
  /\ re_fedDen = <<>>
  /\ re_emitted = <<>>
  /\ re_last = RateNoRun

\* Upstream appends one value to the numerator stream.
RateFeedNum ==
  /\ Len(re_fedNum) < RateFeed
  /\ writable(re_num) >= 1
  /\ \E x \in NumVals :
       /\ re_num' = written(re_num, <<x>>)
       /\ re_fedNum' = Append(re_fedNum, x)
  /\ UNCHANGED <<re_sample_size, re_den, re_rate, re_acc_num, re_acc_den,
                 re_fedDen, re_emitted, re_last>>

\* Upstream appends one value to the denominator stream.
RateFeedDen ==
  /\ Len(re_fedDen) < RateFeed
  /\ writable(re_den) >= 1
  /\ \E x \in DenValsOf(re_sample_size) :
       /\ re_den' = written(re_den, <<x>>)
       /\ re_fedDen' = Append(re_fedDen, x)
  /\ UNCHANGED <<re_sample_size, re_num, re_rate, re_acc_num, re_acc_den,
                 re_fedNum, re_emitted, re_last>>

\* Downstream consumes one ratio of the output stream.
RateDrain ==
  /\ readable(re_rate) >= 1
  /\ re_rate' = read(re_rate, 1)
  /\ UNCHANGED <<re_sample_size, re_num, re_den, re_acc_num, re_acc_den,
                 re_fedNum, re_fedDen, re_emitted, re_last>>

\* rate.writable()
RateWritable(buf) == RateCap - Len(buf)

\* Faulty variant: the capacity test is missing.
RateBlockedNever(W) == FALSE

\* if ( rate.writable() < 1 ) return;
RateBlocked(W) == W < 1

\* int count = min(num.readable(), den.readable());
RateCount(Rn, Rd) == Min(Rn, Rd)

\* Faulty variant: the sum of this run replaces the running sum.
RateAccumulateNoCarry(acc, buf, count) == SumSeq(SubSeq(buf, 1, count))

\* for ( int n=count; n--; ++p ) acc += *p;
RateAccumulate(acc, buf, count) == acc + SumSeq(SubSeq(buf, 1, count))

\* Faulty variant: the threshold must be exceeded, not reached.
RateReachedStrict(acc_den, sample_size) == acc_den > sample_size

\* if ( acc_den >= sample_size )
RateReached(acc_den, sample_size) == acc_den >= sample_size

\* Faulty variant: the sums survive an emission.
RateResetNever(acc, emit) == acc

\* acc_num = acc_den = 0; inside if ( acc_den >= sample_size )
RateReset(acc, emit) == IF emit THEN 0 ELSE acc

\* (float)acc_num / acc_den
RateRatio(acc_num, acc_den) == [n |-> acc_num, d |-> acc_den]

\* rate_estimator::run
RateEstimatorRun ==
  IF RateBlocked(RateWritable(re_rate)) THEN
    /\ re_last' = [RateNoRun EXCEPT !.ran = TRUE,
                                    !.W = RateWritable(re_rate),
                                    !.Rn = readable(re_num),
                                    !.Rd = readable(re_den),
                                    !.accn0 = re_acc_num,
                                    !.accd0 = re_acc_den]
    /\ UNCHANGED <<re_sample_size, re_num, re_den, re_rate, re_acc_num, re_acc_den,
                   re_fedNum, re_fedDen, re_emitted>>
  ELSE
    LET count == RateCount(readable(re_num), readable(re_den))
        accn == RateAccumulate(re_acc_num, re_num, count)
        accd == RateAccumulate(re_acc_den, re_den, count)
        emit == RateReached(accd, re_sample_size)
    IN /\ re_num' = read(re_num, count)
       /\ re_den' = read(re_den, count)
       /\ re_rate' = IF emit THEN written(re_rate, <<RateRatio(accn, accd)>>) ELSE re_rate
       /\ re_acc_num' = RateReset(accn, emit)
       /\ re_acc_den' = RateReset(accd, emit)
       /\ re_emitted' = IF emit
                        THEN Append(re_emitted,
                                    [val |-> RateRatio(accn, accd),
                                     upto |-> Len(re_fedNum) - Len(re_num')])
                        ELSE re_emitted
       /\ re_last' = [ran |-> TRUE,
                      W |-> RateWritable(re_rate),
                      Rn |-> readable(re_num),
                      Rd |-> readable(re_den),
                      cnum |-> Len(re_num) - Len(re_num'),
                      cden |-> Len(re_den) - Len(re_den'),
                      sumn |-> SumSeq(SubSeq(re_num, 1, Len(re_num) - Len(re_num'))),
                      sumd |-> SumSeq(SubSeq(re_den, 1, Len(re_den) - Len(re_den'))),
                      accn0 |-> re_acc_num,
                      accd0 |-> re_acc_den,
                      nemit |-> Len(re_rate') - Len(re_rate)]
       /\ UNCHANGED <<re_sample_size, re_fedNum, re_fedDen>>

\* ------------------------------------------------------------------------
\* file_printer.  The element at global position k (1-based) carries the
\* value k.  snprintf and write are the environment: snprintf returns a
\* negative value, a length that fits buf, or a length that does not; write
\* returns the length asked for or fails.
\* ------------------------------------------------------------------------
FmtLens == {-1, BufSize - 1, BufSize}

FilePrinterNoRun ==
  [state |-> "none", p0 |-> 0, n |-> 0, w0 |-> 0, base |-> 0, consumed |-> 0]

FilePrinterIdle ==
  /\ fp_decimation = 1
  /\ fp_scale = 1
  /\ fp_in = <<>>
  /\ fp_phase = 0
  /\ fp_pc = "idle"
  /\ fp_n = 0
  /\ fp_i = 0
  /\ fp_fed = 0
  /\ fp_writes = <<>>
  /\ fp_last = FilePrinterNoRun

FilePrinterInit ==
  /\ fp_decimation \in 1..MaxD
  /\ fp_scale \in 1..MaxScale
  /\ fp_in = <<>>
  /\ fp_phase = 0
  /\ fp_pc = "idle"
  /\ fp_n = 0
  /\ fp_i = 0
  /\ fp_fed = 0
  /\ fp_writes = <<>>
  /\ fp_last = FilePrinterNoRun

\* Upstream appends one element to the input stream (between runs).
FilePrinterFeed ==
  /\ fp_pc = "idle"
  /\ fp_fed < PrintFeed
  /\ Len(fp_in) < PrintCap
  /\ fp_in' = written(fp_in, <<fp_fed + 1>>)
  /\ fp_fed' = fp_fed + 1
  /\ UNCHANGED <<fp_decimation, fp_scale, fp_phase, fp_pc, fp_n, fp_i, fp_writes, fp_last>>

\* int n = in.readable(); T *pin=in.rd(), *pend=pin+n;
FilePrinterBegin ==
  /\ fp_pc = "idle"
  /\ fp_n' = readable(fp_in)
  /\ fp_i' = 0
  /\ fp_pc' = "loop"
  /\ fp_last' = [state |-> "running", p0 |-> fp_phase, n |-> readable(fp_in),
                 w0 |-> Len(fp_writes), base |-> fp_fed - Len(fp_in),
                 consumed |-> 0]
  /\ UNCHANGED <<fp_decimation, fp_scale, fp_in, fp_phase, fp_fed, fp_writes>>

\* Faulty variant: the phase must exceed the decimation factor.
FilePrinterFiresLate(phase, decimation) == phase > decimation

\* if ( ++phase >= decimation )
FilePrinterFires(phase, decimation) == phase >= decimation

\* if ( len < 0 ) fatal("obsolete glibc");
FilePrinterFormatFailed(len) == len < 0

\* if ( nw != len ) fatal("partial write");
FilePrinterWriteFailed(nw, len) == nw # len

\* One iteration of for ( ; pin<pend; ++pin ) { ... }
FilePrinterElem ==
  /\ fp_pc = "loop"
  /\ fp_i < fp_n
  /\ IF FilePrinterFires(fp_phase + 1, fp_decimation) THEN
       /\ fp_phase' = fp_phase + 1 - fp_decimation
       /\ \E len \in FmtLens :
            IF FilePrinterFormatFailed(len) THEN
              /\ fp_pc' = "fatal"
              /\ fp_last' = [fp_last EXCEPT !.state = "fatal"]
              /\ UNCHANGED <<fp_i, fp_writes>>
            ELSE
              /\ fp_writes' = Append(fp_writes,
                                     [pos |-> fp_last.base + fp_i + 1,
                                      val |-> fp_in[fp_i + 1] * fp_scale,
                                      len |-> len])
              /\ \E nw \in {-1, len} :
                   IF FilePrinterWriteFailed(nw, len) THEN
                     /\ fp_pc' = "fatal"
                     /\ fp_last' = [fp_last EXCEPT !.state = "fatal"]
                     /\ UNCHANGED fp_i
                   ELSE
                     /\ fp_i' = fp_i + 1
                     /\ UNCHANGED <<fp_pc, fp_last>>
     ELSE
       /\ fp_phase' = fp_phase + 1
       /\ fp_i' = fp_i + 1
       /\ UNCHANGED <<fp_pc, fp_writes, fp_last>>
  /\ UNCHANGED <<fp_decimation, fp_scale, fp_in, fp_n, fp_fed>>

\* in.read(n);
FilePrinterEnd ==
  /\ fp_pc = "loop"
  /\ fp_i = fp_n
  /\ fp_in' = read(fp_in, fp_n)
  /\ fp_pc' = "idle"
  /\ fp_last' = [fp_last EXCEPT !.state = "returned",
                                !.consumed = Len(fp_in) - Len(fp_in')]
  /\ UNCHANGED <<fp_decimation, fp_scale, fp_phase, fp_n, fp_i, fp_fed, fp_writes>>

\* ------------------------------------------------------------------------
\* buffer_reader.  The k-th element of the source (1-based) carries the
\* value k.  The writable capacity the output stream reports to a run is
\* any number of free slots up to those the stream has.
\* ------------------------------------------------------------------------
BufferReaderNoRun == [ran |-> FALSE, W |-> 0, pos0 |-> 0, n |-> 0, nprod |-> 0]

BufferReaderIdle ==
  /\ br_count = 0
  /\ br_data = <<>>
  /\ br_pos = 0
  /\ br_out = <<>>
  /\ br_prod = <<>>
  /\ br_last = BufferReaderNoRun

BufferReaderInit ==
  /\ br_count \in 0..MaxCount
  /\ br_data = [k \in 1..br_count |-> k]
  /\ br_pos = 0
  /\ br_out = <<>>
  /\ br_prod = <<>>
  /\ br_last = BufferReaderNoRun

\* Downstream consumes one element of the output stream.
BufferReaderDrain ==
  /\ readable(br_out) >= 1
  /\ br_out' = read(br_out, 1)
  /\ UNCHANGED <<br_count, br_data, br_pos, br_prod, br_last>>

\* int n = min(out.writable(), (unsigned long)(count-pos));
BufferReaderN(W, count, pos) == Min(W, count - pos)

\* Faulty variant: the copy starts at the beginning of the source.
BufferReaderCopyFromStart(data, pos, n) == [k \in 1..n |-> data[k]]

\* memcpy(out.wr(), &data[pos], n*sizeof(T));
BufferReaderCopy(data, pos, n) == [k \in 1..n |-> data[pos + k]]

\* buffer_reader::run
BufferReaderRun ==
  \E W \in 0..(BrCap - Len(br_out)) :
    LET n == BufferReaderN(W, br_count, br_pos)
        items == BufferReaderCopy(br_data, br_pos, n)
    IN /\ br_pos' = br_pos + n
       /\ br_out' = written(br_out, items)
       /\ br_prod' = br_prod \o items
       /\ br_last' = [ran |-> TRUE, W |-> W, pos0 |-> br_pos, n |-> n,
                      nprod |-> Len(br_out') - Len(br_out)]
       /\ UNCHANGED <<br_count, br_data>>

\* ------------------------------------------------------------------------
\* buffer_writer.  The k-th element fed to the input stream carries the
\* value k (k >= 1); a destination slot holding 0 was never written.
\* ------------------------------------------------------------------------
BufferWriterNoRun == [ran |-> FALSE, R |-> 0, pos0 |-> 0, n |-> 0, ncons |-> 0]

BufferWriterIdle ==
  /\ bw_count = 0
  /\ bw_data = <<>>
  /\ bw_pos = 0
  /\ bw_in = <<>>
  /\ bw_fed = 0
  /\ bw_idx = <<>>
  /\ bw_last = BufferWriterNoRun

BufferWriterInit ==
  /\ bw_count \in 0..MaxDst
  /\ bw_data = [k \in 1..bw_count |-> 0]
  /\ bw_pos = 0
  /\ bw_in = <<>>
  /\ bw_fed = 0
  /\ bw_idx = <<>>
  /\ bw_last = BufferWriterNoRun

\* Upstream produces the next element into the input stream.
BufferWriterFeed ==
  /\ bw_fed < BwFeed
  /\ writable(bw_in) >= 1
  /\ bw_in' = written(bw_in, <<bw_fed + 1>>)
  /\ bw_fed' = bw_fed + 1
  /\ UNCHANGED <<bw_count, bw_data, bw_pos, bw_idx, bw_last>>

\* Faulty variant: the remaining space of the destination is ignored.
BufferWriterNAll(R, count, pos) == R

\* int n = min(in.readable(), (unsigned long)(count-pos));
BufferWriterN(R, count, pos) == Min(R, count - pos)

\* memcpy(&data[pos], in.rd(), n*sizeof(T)): slot k (1-based) of the
\* destination is index k-1 of the code.
BufferWriterCopy(data, pos, buf, n) ==
  [k \in DOMAIN data |-> IF k - 1 >= pos /\ k - 1 < pos + n THEN buf[k - pos] ELSE data[k]]

\* buffer_writer::run
BufferWriterRun ==
  LET R == readable(bw_in)
      n == BufferWriterN(R, bw_count, bw_pos)
  IN /\ bw_data' = BufferWriterCopy(bw_data, bw_pos, bw_in, n)
     /\ bw_idx' = bw_idx \o [k \in 1..n |-> bw_pos + k - 1]
     /\ bw_in' = read(bw_in, n)
     /\ bw_pos' = bw_pos + n
     /\ bw_last' = [ran |-> TRUE, R |-> R, pos0 |-> bw_pos, n |-> n,
                    ncons |-> Len(bw_in) - Len(bw_in')]
     /\ UNCHANGED <<bw_count, bw_fed>>

\* ------------------------------------------------------------------------
\* itemcounter<Tin,Tout>.  The input elements are never looked at and are
\* all 0 here; Tout is an unsigned integer type of ic_bits bits.
\* ------------------------------------------------------------------------
IcOutBits == {8, 16}
IcChunks == {1, 255}

ItemCounterNoRun ==
  [ran |-> FALSE, W |-> 0, R |-> 0, nemit |-> 0, val |-> 0, ncons |-> 0]

ItemCounterIdle ==
  /\ ic_bits = 0
  /\ ic_in = <<>>
  /\ ic_out = <<>>
  /\ ic_fed = 0
  /\ ic_consumed = 0
  /\ ic_sum = 0
  /\ ic_last = ItemCounterNoRun

ItemCounterInit ==
  /\ ic_bits \in IcOutBits
  /\ ic_in = <<>>
  /\ ic_out = <<>>
  /\ ic_fed = 0
  /\ ic_consumed = 0
  /\ ic_sum = 0
  /\ ic_last = ItemCounterNoRun

\* Upstream produces a chunk of elements into the input stream.
ItemCounterFeed ==
  \E n \in IcChunks :
    /\ ic_fed < IcFeed
    /\ Len(ic_in) + n <= IcCap
    /\ ic_in' = ic_in \o [k \in 1..n |-> 0]
    /\ ic_fed' = ic_fed + 1
    /\ UNCHANGED <<ic_bits, ic_out, ic_consumed, ic_sum, ic_last>>

\* Downstream consumes one value of the output stream.
ItemCounterDrain ==
  /\ Len(ic_out) >= 1
  /\ ic_out' = Tail(ic_out)
  /\ UNCHANGED <<ic_bits, ic_in, ic_fed, ic_consumed, ic_sum, ic_last>>

\* out.write(count): the unsigned long count is converted to Tout.
ItemCounterValue(count, bits) == count % (2 ^ bits)

\* itemcounter::run
ItemCounterRun ==
  LET W == IcOutCap - Len(ic_out)
      count == Len(ic_in)
  IN IF W < 1 \/ count = 0
     THEN /\ ic_last' = [ran |-> TRUE, W |-> W, R |-> count, nemit |-> 0,
                         val |-> 0, ncons |-> 0]
          /\ UNCHANGED <<ic_bits, ic_in, ic_out, ic_fed, ic_consumed, ic_sum>>
     ELSE LET v == ItemCounterValue(count, ic_bits)
          IN /\ ic_out' = Append(ic_out, v)
             /\ ic_in' = SubSeq(ic_in, count + 1, Len(ic_in))
             /\ ic_consumed' = ic_consumed + count
             /\ ic_sum' = ic_sum + v
             /\ ic_last' = [ran |-> TRUE, W |-> W, R |-> count, nemit |-> 1,
                            val |-> v, ncons |-> count]
             /\ UNCHANGED <<ic_bits, ic_fed>>

\* ------------------------------------------------------------------------
\* file_writer.  The descriptor is the environment: a write of size bytes
\* returns any result in -1..size.  The k-th element fed carries the value k.
\* ------------------------------------------------------------------------
FwWidths == {1, 2, 4}

FileWriterNoRun ==
  [ran |-> FALSE, R |-> 0, calls |-> 0, asked |-> 0, nw |-> 0, ncons |-> 0,
   fatal |-> ""]

FileWriterIdle ==
  /\ fw_width = 0
  /\ fw_in = <<>>
  /\ fw_fed = 0
  /\ fw_pc = "idle"
  /\ fw_last = FileWriterNoRun

FileWriterInit ==
  /\ fw_width \in FwWidths
  /\ fw_in = <<>>
  /\ fw_fed = 0
  /\ fw_pc = "idle"
  /\ fw_last = FileWriterNoRun

\* Upstream produces the next element into the input stream.
FileWriterFeed ==
  /\ fw_pc = "idle"
  /\ fw_fed < FwFeed
  /\ writable(fw_in) >= 1
  /\ fw_in' = written(fw_in, <<fw_fed + 1>>)
  /\ fw_fed' = fw_fed + 1
  /\ UNCHANGED <<fw_width, fw_pc, fw_last>>

\* Faulty variant: a torn write is never noticed.
FileWriterPartialNever(nw, w) == FALSE

\* if ( nw % sizeof(T) ) fatal("partial write");
FileWriterPartial(nw, w) == nw % w # 0

\* The fatal() the result nw of the write leads to, "" when there is none.
FileWriterFatal(nw, w) ==
  IF nw = 0 THEN "pipe"
  ELSE IF nw < 0 THEN "write"
  ELSE IF FileWriterPartial(nw, w) THEN "partial write"
  ELSE ""

\* file_writer::run
FileWriterRun ==
  /\ fw_pc = "idle"
  /\ LET R == readable(fw_in)
         size == R * fw_width
     IN IF size = 0
        THEN /\ fw_last' = [ran |-> TRUE, R |-> R, calls |-> 0, asked |-> 0,
                            nw |-> 0, ncons |-> 0, fatal |-> ""]
             /\ UNCHANGED <<fw_width, fw_in, fw_fed, fw_pc>>
        ELSE \E nw \in (-1)..size :
               LET f == FileWriterFatal(nw, fw_width)
               IN /\ fw_pc' = IF f # "" THEN "fatal" ELSE "idle"
                  /\ fw_in' = IF f # "" THEN fw_in ELSE read(fw_in, nw \div fw_width)
                  /\ fw_last' = [ran |-> TRUE, R |-> R, calls |-> 1, asked |-> size,
                                 nw |-> nw, ncons |-> Len(fw_in) - Len(fw_in'),
                                 fatal |-> f]
                  /\ UNCHANGED <<fw_width, fw_fed>>

\* ------------------------------------------------------------------------
\* file_carrayprinter.  The k-th element fed is the complex value (k, -k).
\* What a run sends to fout is a sequence of operations <<kind, a, b>>.
\* ------------------------------------------------------------------------
FileCArrayPrinterNoRun == [ran |-> FALSE, buf |-> <<>>, ops |-> <<>>, ncons |-> 0]

FileCArrayPrinterIdle ==
  /\ cp_fout = FALSE
  /\ cp_scale = 1
  /\ cp_in = <<>>
  /\ cp_fed = 0
  /\ cp_last = FileCArrayPrinterNoRun

FileCArrayPrinterInit ==
  /\ cp_fout \in BOOLEAN
  /\ cp_scale \in 1..MaxScale
  /\ cp_in = <<>>
  /\ cp_fed = 0
  /\ cp_last = FileCArrayPrinterNoRun

\* Upstream produces the next element into the input stream.
FileCArrayPrinterFeed ==
  /\ cp_fed < CpFeed
  /\ writable(cp_in) >= 1
  /\ cp_in' = written(cp_in, <<[re |-> cp_fed + 1, im |-> 0 - (cp_fed + 1)]>>)
  /\ cp_fed' = cp_fed + 1
  /\ UNCHANGED <<cp_fout, cp_scale, cp_last>>

\* Faulty variant: output is attempted whatever the count and the handle.
FileCArrayPrinterEnabledAlways(n, fout) == TRUE

\* if ( n && fout )
FileCArrayPrinterEnabled(n, fout) == n # 0 /\ fout

\* fprintf(fout, format, pin->re*scale, pin->im*scale);
FileCArrayPrinterElem(x, scale) == <<"elem", x.re * scale, x.im * scale>>

\* fprintf(fout, head, n); the loop over the n elements;
\* fprintf(fout, "%s", tail); fflush(fout);
FileCArrayPrinterOutput(buf, n, scale) ==
  <<<<"head", n, 0>>>> \o [k \in 1..n |-> FileCArrayPrinterElem(buf[k], scale)]
    \o << <<"tail", 0, 0>>, <<"flush", 0, 0>> >>

\* file_carrayprinter::run
FileCArrayPrinterRun ==
  LET n == readable(cp_in)
  IN /\ cp_in' = read(cp_in, n)
     /\ cp_last' = [ran |-> TRUE, buf |-> cp_in,
                    ops |-> IF FileCArrayPrinterEnabled(n, cp_fout)
                            THEN FileCArrayPrinterOutput(cp_in, n, cp_scale)
                            ELSE <<>>,
                    ncons |-> Len(cp_in) - Len(cp_in')]
     /\ UNCHANGED <<cp_fout, cp_scale, cp_fed>>

\* ------------------------------------------------------------------------
\* Pipeline buffer_reader -> decimator(d) -> buffer_writer.  The three run()
\* are those of the blocks above, on two streams of capacity pl_cap >= d.
\* Element k (1-based) of the source carries the value k; a destination slot
\* holding 0 was never written.
\* ------------------------------------------------------------------------
PipelineIdle ==
  /\ pl_cap = 1
  /\ pl_src = <<>>
  /\ pl_rpos = 0
  /\ pl_s1 = <<>>
  /\ pl_d = 1
  /\ pl_s2 = <<>>
  /\ pl_dst = <<>>
  /\ pl_wpos = 0

PipelineInit ==
  /\ pl_d \in 1..MaxD
  /\ pl_cap \in pl_d..Max(PipeCap, MaxD)
  /\ \E N \in 0..PipeN : pl_src = [k \in 1..N |-> k]
  /\ \E M \in 0..PipeM : pl_dst = [k \in 1..M |-> 0]
  /\ pl_rpos = 0
  /\ pl_s1 = <<>>
  /\ pl_s2 = <<>>
  /\ pl_wpos = 0

\* out.writable() of a pipeline stream
PipelineWritable(buf) == pl_cap - Len(buf)

\* buffer_reader::run in the pipeline
PipelineReaderRun ==
  LET n == BufferReaderN(PipelineWritable(pl_s1), Len(pl_src), pl_rpos)
  IN /\ pl_s1' = written(pl_s1, BufferReaderCopy(pl_src, pl_rpos, n))
     /\ pl_rpos' = pl_rpos + n
     /\ UNCHANGED <<pl_cap, pl_src, pl_d, pl_s2, pl_dst, pl_wpos>>

\* decimator::run in the pipeline
PipelineDecimatorRun ==
  LET count == DecimatorCount(readable(pl_s1), PipelineWritable(pl_s2), pl_d)
  IN /\ pl_s2' = written(pl_s2, DecimatorPick(pl_s1, count, pl_d))
     /\ pl_s1' = read(pl_s1, DecimatorConsumed(count, pl_d))
     /\ UNCHANGED <<pl_cap, pl_src, pl_rpos, pl_d, pl_dst, pl_wpos>>

\* buffer_writer::run in the pipeline
PipelineWriterRun ==
  LET n == BufferWriterN(readable(pl_s2), Len(pl_dst), pl_wpos)
  IN /\ pl_dst' = BufferWriterCopy(pl_dst, pl_wpos, pl_s2, n)
     /\ pl_s2' = read(pl_s2, n)
     /\ pl_wpos' = pl_wpos + n
     /\ UNCHANGED <<pl_cap, pl_src, pl_rpos, pl_s1, pl_d>>

\* ------------------------------------------------------------------------
\* Specifications: one block at a time, the other blocks left alone.
\* ------------------------------------------------------------------------
DecimatorOthers == UNCHANGED <<serVars, frVars, reVars, fpVars, brVars, bwVars, icVars,
    fwVars, cpVars, plVars, blk>>

SerializerOthers == UNCHANGED <<decVars, frVars, reVars, fpVars, brVars, bwVars,
    icVars, fwVars, cpVars, plVars, blk>>

FileReaderOthers == UNCHANGED <<decVars, serVars, reVars, fpVars, brVars, bwVars,
    icVars, fwVars, cpVars, plVars, blk>>

FilePrinterOthers == UNCHANGED <<decVars, serVars, frVars, reVars, brVars, bwVars,
    icVars, fwVars, cpVars, plVars, blk>>

RateEstimatorOthers == UNCHANGED <<decVars, serVars, frVars, fpVars, brVars, bwVars,
    icVars, fwVars, cpVars, plVars, blk>>

BufferReaderOthers == UNCHANGED <<decVars, serVars, frVars, reVars, fpVars, bwVars,
    icVars, fwVars, cpVars, plVars, blk>>

BufferWriterOthers == UNCHANGED <<decVars, serVars, frVars, reVars, fpVars, brVars,
    icVars, fwVars, cpVars, plVars, blk>>

ItemCounterOthers == UNCHANGED <<decVars, serVars, frVars, reVars, fpVars, brVars,
    bwVars, fwVars, cpVars, plVars, blk>>

FileWriterOthers == UNCHANGED <<decVars, serVars, frVars, reVars, fpVars, brVars,
    bwVars, icVars, cpVars, plVars, blk>>

FileCArrayPrinterOthers == UNCHANGED <<decVars, serVars, frVars, reVars, fpVars,
    brVars, bwVars, icVars, fwVars, plVars, blk>>

PipelineOthers == UNCHANGED <<decVars, serVars, frVars, reVars, fpVars, brVars, bwVars,
    icVars, fwVars, cpVars, blk>>

InitDecimator ==
  blk = "Decimator" /\ DecimatorInit /\ SerializerIdle /\ FileReaderIdle /\
  RateEstimatorIdle /\ FilePrinterIdle /\ BufferReaderIdle /\ BufferWriterIdle /\
  ItemCounterIdle /\ FileWriterIdle /\ FileCArrayPrinterIdle /\ PipelineIdle

NextDecimator ==
  \/ DecimatorFeed /\ DecimatorOthers
  \/ DecimatorDrain /\ DecimatorOthers
  \/ DecimatorRun /\ DecimatorOthers

SpecDecimator == InitDecimator /\ [][NextDecimator]_vars

InitSerializer ==
  blk = "Serializer" /\ SerializerInit /\ DecimatorIdle /\ FileReaderIdle /\
  RateEstimatorIdle /\ FilePrinterIdle /\ BufferReaderIdle /\ BufferWriterIdle /\
  ItemCounterIdle /\ FileWriterIdle /\ FileCArrayPrinterIdle /\ PipelineIdle

NextSerializer ==
  \/ SerializerCtor /\ SerializerOthers
  \/ SerializerFeed /\ SerializerOthers
  \/ SerializerDrain /\ SerializerOthers
  \/ SerializerRun /\ SerializerOthers

SpecSerializer == InitSerializer /\ [][NextSerializer]_vars

InitFileReader ==
  blk = "FileReader" /\ FileReaderInit /\ DecimatorIdle /\ SerializerIdle /\
  RateEstimatorIdle /\ FilePrinterIdle /\ BufferReaderIdle /\ BufferWriterIdle /\
  ItemCounterIdle /\ FileWriterIdle /\ FileCArrayPrinterIdle /\ PipelineIdle

NextFileReader ==
  \/ FileReaderDrain /\ FileReaderOthers
  \/ FileReaderBegin /\ FileReaderOthers
  \/ FileReaderRead /\ FileReaderOthers
  \/ FileReaderLseek /\ FileReaderOthers
  \/ FileReaderPartial /\ FileReaderOthers

SpecFileReader == InitFileReader /\ [][NextFileReader]_vars

\* Inside run() the program counter moves on by itself: a descriptor call
\* that is reached is made and returns.
SpecFileReaderFair ==
  /\ InitFileReader
  /\ [][NextFileReader]_vars
  /\ WF_vars(FileReaderRead /\ FileReaderOthers)
  /\ WF_vars(FileReaderLseek /\ FileReaderOthers)
  /\ WF_vars(FileReaderPartial /\ FileReaderOthers)

InitRateEstimator ==
  blk = "RateEstimator" /\ RateEstimatorInit /\ DecimatorIdle /\ SerializerIdle /\
  FileReaderIdle /\ FilePrinterIdle /\ BufferReaderIdle /\ BufferWriterIdle /\
  ItemCounterIdle /\ FileWriterIdle /\ FileCArrayPrinterIdle /\ PipelineIdle

NextRateEstimator ==
  \/ RateFeedNum /\ RateEstimatorOthers
  \/ RateFeedDen /\ RateEstimatorOthers
  \/ RateDrain /\ RateEstimatorOthers
  \/ RateEstimatorRun /\ RateEstimatorOthers

SpecRateEstimator == InitRateEstimator /\ [][NextRateEstimator]_vars

InitFilePrinter ==
  blk = "FilePrinter" /\ FilePrinterInit /\ DecimatorIdle /\ SerializerIdle /\
  FileReaderIdle /\ RateEstimatorIdle /\ BufferReaderIdle /\ BufferWriterIdle /\
  ItemCounterIdle /\ FileWriterIdle /\ FileCArrayPrinterIdle /\ PipelineIdle

NextFilePrinter ==
  \/ FilePrinterFeed /\ FilePrinterOthers
  \/ FilePrinterBegin /\ FilePrinterOthers
  \/ FilePrinterElem /\ FilePrinterOthers
  \/ FilePrinterEnd /\ FilePrinterOthers

SpecFilePrinter == InitFilePrinter /\ [][NextFilePrinter]_vars

InitBufferReader ==
  blk = "BufferReader" /\ BufferReaderInit /\ DecimatorIdle /\ SerializerIdle /\
  FileReaderIdle /\ RateEstimatorIdle /\ FilePrinterIdle /\ BufferWriterIdle /\
  ItemCounterIdle /\ FileWriterIdle /\ FileCArrayPrinterIdle /\ PipelineIdle

NextBufferReader ==
  \/ BufferReaderDrain /\ BufferReaderOthers
  \/ BufferReaderRun /\ BufferReaderOthers

SpecBufferReader == InitBufferReader /\ [][NextBufferReader]_vars

InitBufferWriter ==
  blk = "BufferWriter" /\ BufferWriterInit /\ DecimatorIdle /\ SerializerIdle /\
  FileReaderIdle /\ RateEstimatorIdle /\ FilePrinterIdle /\ BufferReaderIdle /\
  ItemCounterIdle /\ FileWriterIdle /\ FileCArrayPrinterIdle /\ PipelineIdle

NextBufferWriter ==
  \/ BufferWriterFeed /\ BufferWriterOthers
  \/ BufferWriterRun /\ BufferWriterOthers

SpecBufferWriter == InitBufferWriter /\ [][NextBufferWriter]_vars

InitItemCounter ==
  blk = "ItemCounter" /\ ItemCounterInit /\ DecimatorIdle /\ SerializerIdle /\
  FileReaderIdle /\ RateEstimatorIdle /\ FilePrinterIdle /\ BufferReaderIdle /\
  BufferWriterIdle /\ FileWriterIdle /\ FileCArrayPrinterIdle /\ PipelineIdle

NextItemCounter ==
  \/ ItemCounterFeed /\ ItemCounterOthers
  \/ ItemCounterDrain /\ ItemCounterOthers
  \/ ItemCounterRun /\ ItemCounterOthers

SpecItemCounter == InitItemCounter /\ [][NextItemCounter]_vars

InitFileWriter ==
  blk = "FileWriter" /\ FileWriterInit /\ DecimatorIdle /\ SerializerIdle /\
  FileReaderIdle /\ RateEstimatorIdle /\ FilePrinterIdle /\ BufferReaderIdle /\
  BufferWriterIdle /\ ItemCounterIdle /\ FileCArrayPrinterIdle /\ PipelineIdle

NextFileWriter ==
  \/ FileWriterFeed /\ FileWriterOthers
  \/ FileWriterRun /\ FileWriterOthers

SpecFileWriter == InitFileWriter /\ [][NextFileWriter]_vars

InitFileCArrayPrinter ==
  blk = "FileCArrayPrinter" /\ FileCArrayPrinterInit /\ DecimatorIdle /\
  SerializerIdle /\ FileReaderIdle /\ RateEstimatorIdle /\ FilePrinterIdle /\
  BufferReaderIdle /\ BufferWriterIdle /\ ItemCounterIdle /\ FileWriterIdle /\
  PipelineIdle

NextFileCArrayPrinter ==
  \/ FileCArrayPrinterFeed /\ FileCArrayPrinterOthers
  \/ FileCArrayPrinterRun /\ FileCArrayPrinterOthers

SpecFileCArrayPrinter == InitFileCArrayPrinter /\ [][NextFileCArrayPrinter]_vars

InitPipeline ==
  blk = "Pipeline" /\ PipelineInit /\ DecimatorIdle /\ SerializerIdle /\
  FileReaderIdle /\ RateEstimatorIdle /\ FilePrinterIdle /\ BufferReaderIdle /\
  BufferWriterIdle /\ ItemCounterIdle /\ FileWriterIdle /\ FileCArrayPrinterIdle

NextPipeline ==
  \/ PipelineReaderRun /\ PipelineOthers
  \/ PipelineDecimatorRun /\ PipelineOthers
  \/ PipelineWriterRun /\ PipelineOthers

SpecPipeline == InitPipeline /\ [][NextPipeline]_vars

\* Every block is run again and again by the scheduler.
SpecPipelineFair ==
  /\ InitPipeline
  /\ [][NextPipeline]_vars
  /\ WF_vars(PipelineReaderRun /\ PipelineOthers)
  /\ WF_vars(PipelineDecimatorRun /\ PipelineOthers)
  /\ WF_vars(PipelineWriterRun /\ PipelineOthers)

\* ------------------------------------------------------------------------
\* All the blocks, one at a time: the block under study starts from its
\* constructor and is the only one that moves; the others stay as they are.
\* ------------------------------------------------------------------------
InitBlocks ==
  \/ InitDecimator
  \/ InitSerializer
  \/ InitFileReader
  \/ InitRateEstimator
  \/ InitFilePrinter
  \/ InitBufferReader
  \/ InitBufferWriter
  \/ InitItemCounter
  \/ InitFileWriter
  \/ InitFileCArrayPrinter

NextBlocks ==
  \/ blk = "Decimator" /\ DecimatorFeed /\ DecimatorOthers
  \/ blk = "Decimator" /\ DecimatorDrain /\ DecimatorOthers
  \/ blk = "Decimator" /\ DecimatorRun /\ DecimatorOthers
  \/ blk = "Serializer" /\ SerializerCtor /\ SerializerOthers
  \/ blk = "Serializer" /\ SerializerFeed /\ SerializerOthers
  \/ blk = "Serializer" /\ SerializerDrain /\ SerializerOthers
  \/ blk = "Serializer" /\ SerializerRun /\ SerializerOthers
  \/ blk = "FileReader" /\ FileReaderDrain /\ FileReaderOthers
  \/ blk = "FileReader" /\ FileReaderBegin /\ FileReaderOthers
  \/ blk = "FileReader" /\ FileReaderRead /\ FileReaderOthers
  \/ blk = "FileReader" /\ FileReaderLseek /\ FileReaderOthers
  \/ blk = "FileReader" /\ FileReaderPartial /\ FileReaderOthers
  \/ blk = "RateEstimator" /\ RateFeedNum /\ RateEstimatorOthers
  \/ blk = "RateEstimator" /\ RateFeedDen /\ RateEstimatorOthers
  \/ blk = "RateEstimator" /\ RateDrain /\ RateEstimatorOthers
  \/ blk = "RateEstimator" /\ RateEstimatorRun /\ RateEstimatorOthers
  \/ blk = "FilePrinter" /\ FilePrinterFeed /\ FilePrinterOthers
  \/ blk = "FilePrinter" /\ FilePrinterBegin /\ FilePrinterOthers
  \/ blk = "FilePrinter" /\ FilePrinterElem /\ FilePrinterOthers
  \/ blk = "FilePrinter" /\ FilePrinterEnd /\ FilePrinterOthers
  \/ blk = "BufferReader" /\ BufferReaderDrain /\ BufferReaderOthers
  \/ blk = "BufferReader" /\ BufferReaderRun /\ BufferReaderOthers
  \/ blk = "BufferWriter" /\ BufferWriterFeed /\ BufferWriterOthers
  \/ blk = "BufferWriter" /\ BufferWriterRun /\ BufferWriterOthers
  \/ blk = "ItemCounter" /\ ItemCounterFeed /\ ItemCounterOthers
  \/ blk = "ItemCounter" /\ ItemCounterDrain /\ ItemCounterOthers
  \/ blk = "ItemCounter" /\ ItemCounterRun /\ ItemCounterOthers
  \/ blk = "FileWriter" /\ FileWriterFeed /\ FileWriterOthers
  \/ blk = "FileWriter" /\ FileWriterRun /\ FileWriterOthers
  \/ blk = "FileCArrayPrinter" /\ FileCArrayPrinterFeed /\ FileCArrayPrinterOthers
  \/ blk = "FileCArrayPrinter" /\ FileCArrayPrinterRun /\ FileCArrayPrinterOthers

SpecBlocks == InitBlocks /\ [][NextBlocks]_vars

\* C1: one run() with R readable and W writable elements forwards exactly
\* min(R div D, W) elements and consumes D times as many (so that, fed N
\* elements with room downstream, it forwards N div D and leaves N mod D
\* buffered), and over any sequence of feeds, drains and runs the k-th
\* element ever forwarded is the input element at global position k*D.
C1_DecimatorForwardsEveryDth ==
  /\ dec_last.ran =>
       /\ dec_last.nfwd = Min(dec_last.R \div dec_d, dec_last.W)
       /\ dec_last.ncons = dec_d * dec_last.nfwd
       /\ (dec_last.W >= dec_last.R \div dec_d =>
             /\ dec_last.nfwd = dec_last.R \div dec_d
             /\ dec_last.R - dec_last.ncons = dec_last.R % dec_d)
  /\ Len(dec_fwd) * dec_d + Len(dec_in) = Len(dec_fed)
  /\ \A k \in 0..(Len(dec_fwd) - 1) : dec_fwd[k + 1] = dec_fed[k * dec_d + 1]

\* A run with D >= 2 has forwarded its second group while a remainder
\* smaller than D stays buffered.
C1_Witness ==
  /\ dec_last.ran
  /\ dec_d >= 2
  /\ dec_last.nfwd >= 1
  /\ Len(dec_fwd) >= 2
  /\ Len(dec_in) >= 1
  /\ dec_fwd[2] # dec_fed[2]

\* C5: a run that finds the output stream without writable capacity does
\* nothing: it consumes neither input, keeps both sums and emits nothing.
C5_RateNoCapacityNoWork ==
  (re_last.ran /\ re_last.W = 0) =>
    /\ re_last.cnum = 0
    /\ re_last.cden = 0
    /\ re_last.nemit = 0
    /\ re_acc_num = re_last.accn0
    /\ re_acc_den = re_last.accd0

\* A run found the output full while pairs were readable in both inputs,
\* and left them there.
C5_Witness ==
  /\ re_last.ran
  /\ re_last.W = 0
  /\ re_last.Rn >= 1
  /\ re_last.Rd >= 1
  /\ Len(re_num) = re_last.Rn
  /\ Len(re_den) = re_last.Rd
  /\ Len(re_emitted) = RateCap

\* C6: a run that finds writable capacity consumes min(readable numerators,
\* readable denominators) values of each input, adds them to the sums, and
\* then emits one ratio (numerator sum / denominator sum) and zeroes both
\* sums if the denominator sum is at or above sample_size, else emits
\* nothing and keeps the sums; never more than one value per run.
C6_RateLockstepThreshold ==
  /\ re_last.nemit <= 1
  /\ (re_last.ran /\ re_last.W >= 1) =>
       /\ re_last.cnum = Min(re_last.Rn, re_last.Rd)
       /\ re_last.cden = Min(re_last.Rn, re_last.Rd)
       /\ IF re_last.accd0 + re_last.sumd >= re_sample_size
          THEN /\ re_last.nemit = 1
               /\ re_emitted[Len(re_emitted)].val
                    = [n |-> re_last.accn0 + re_last.sumn,
                       d |-> re_last.accd0 + re_last.sumd]
               /\ re_acc_num = 0
               /\ re_acc_den = 0
          ELSE /\ re_last.nemit = 0
               /\ re_acc_num = re_last.accn0 + re_last.sumn
               /\ re_acc_den = re_last.accd0 + re_last.sumd

\* A run with unequal readable counts added to sums already under way and
\* emitted a ratio, leaving a value unconsumed.
C6_Witness ==
  /\ re_last.ran
  /\ re_last.W >= 1
  /\ re_last.Rn # re_last.Rd
  /\ re_last.cnum >= 1
  /\ re_last.accd0 >= 1
  /\ re_last.nemit = 1
  /\ re_last.accn0 + re_last.sumn >= 1

\* Equality of two ratios with positive denominators.
RatEq(a, b) == a.n * b.d = b.n * a.d

\* The pairs consumed before the j-th emission started to accumulate.
RateSegStart(j) == IF j = 1 THEN 0 ELSE re_emitted[j - 1].upto

\* The K (0 if none) at which the denominators fed after pair s reach the
\* threshold, if they reach it exactly.
RateExactK(s) ==
  LET P == Min(Len(re_fedNum), Len(re_fedDen))
      Ks == {k \in 1..(P - s) :
               /\ SumSeq(SubSeq(re_fedDen, s + 1, s + k)) = re_sample_size
               /\ \A i \in 1..(k - 1) :
                    SumSeq(SubSeq(re_fedDen, s + 1, s + i)) < re_sample_size}
  IN IF Ks = {} THEN 0 ELSE CHOOSE k \in Ks : TRUE

SmallestRatio(win, wout) ==
  LET pairs == {p \in (1..wout) \X (1..win) : p[1] * win = p[2] * wout}
  IN IF pairs = {} THEN <<0, 0>>
     ELSE CHOOSE p \in pairs : \A q \in pairs : p[1] <= q[1]

\* C2: the constructor computes the smallest positive pair (nin, nout) with
\* nin*win = nout*wout (widths 2 and 8 give nin = 4, nout = 1) and fails only
\* when no such pair exists.
C2_SerializerSmallestRatio ==
  ser_pc # "new" =>
    IF SmallestRatio(ser_win, ser_wout) = <<0, 0>>
    THEN ser_pc = "failed"
    ELSE /\ ser_pc = "ok"
         /\ <<ser_nin, ser_nout>> = SmallestRatio(ser_win, ser_wout)

\* C8: the phase persists across runs: a run that starts with phase p and n
\* readable elements and returns has issued (p+n) div D writes, ends with
\* phase (p+n) mod D and has consumed all n elements; the lines written are
\* those of the elements at global positions D, 2D, 3D, ... (so D = 3 fed 7
\* elements from phase 0 writes 2 lines, for the 3rd and the 6th element).
C8_FilePrinterDecimationPhase ==
  /\ fp_last.state = "returned" =>
       /\ Len(fp_writes) - fp_last.w0 = (fp_last.p0 + fp_last.n) \div fp_decimation
       /\ fp_phase = (fp_last.p0 + fp_last.n) % fp_decimation
       /\ fp_last.consumed = fp_last.n
  /\ \A k \in 1..Len(fp_writes) :
       /\ fp_writes[k].pos = k * fp_decimation
       /\ fp_writes[k].val = fp_writes[k].pos * fp_scale
  /\ (fp_last.state = "returned" /\ fp_decimation = 3 /\ fp_last.p0 = 0 /\ fp_last.n = 7) =>
       /\ Len(fp_writes) - fp_last.w0 = 2
       /\ fp_writes[Len(fp_writes) - 1].pos = fp_last.base + 3
       /\ fp_writes[Len(fp_writes)].pos = fp_last.base + 6

\* With decimation 3 a run that found 7 elements at phase 0 returned with
\* two lines written, all 7 consumed and phase 1.
C8_Witness ==
  /\ fp_last.state = "returned"
  /\ fp_decimation = 3
  /\ fp_last.p0 = 0
  /\ fp_last.n = 7
  /\ Len(fp_writes) = 2
  /\ fp_in = <<>>
  /\ fp_phase = 1

\* C9: a formatted length that is negative or does not fit the staging
\* buffer is fatal and no write is issued for it, so every write issued has
\* a length smaller than the staging buffer.
C9_FilePrinterWritesFitBuffer ==
  \A k \in 1..Len(fp_writes) : fp_writes[k].len >= 0 /\ fp_writes[k].len < BufSize

\* C10: a constructed serializer copies whole groups only: a run consumes
\* g*nin elements and produces g*nout for the largest g that input
\* readability and output writability allow, and the bytes of everything
\* produced so far are the bytes of everything consumed so far, in order.
C10_SerializerWholeGroups ==
  ser_pc = "ok" =>
    /\ ser_last.ran =>
         LET g == Min(ser_last.R \div ser_nin, ser_last.W \div ser_nout)
         IN /\ ser_last.ncons = g * ser_nin
            /\ ser_last.nprod = g * ser_nout
            /\ (ser_last.Rafter < ser_nin \/ ser_last.Wafter < ser_nout)
    /\ Flatten(ser_prod)
         = Flatten(SubSeq(ser_fed, 1, Len(ser_fed) - Len(ser_in)))
    /\ \A k \in 1..Len(ser_prod) : Len(ser_prod[k]) = ser_wout

\* A run has copied two groups at least and stopped on a full output with
\* input left over.
C10_Witness ==
  /\ ser_pc = "ok"
  /\ ser_last.ran
  /\ ser_last.nprod >= 2
  /\ ser_last.Wafter < ser_nout
  /\ ser_last.Rafter >= ser_nin
  /\ ser_win >= 2
  /\ Len(ser_prod) >= 3

\* C3: file_reader::run commits whole elements only: in a run that reaches
\* the commit, the bytes obtained from the descriptor (the first read and the
\* completion reads) are a multiple of the element width and the elements
\* committed are that total divided by the width; a completion read that
\* returns zero or less is fatal and nothing is committed.
C3_FileReaderWholeElements ==
  /\ fr_inv.state = "committed" =>
       /\ fr_inv.got % fr_w = 0
       /\ fr_inv.got = fr_nr
       /\ fr_inv.committed = fr_inv.got \div fr_w
       /\ fr_inv.committed * fr_w = fr_inv.got
  /\ fr_inv.bad2 =>
       /\ fr_pc = "fatal"
       /\ fr_inv.committed = 0
       /\ Len(fr_out) = fr_inv.out0
  /\ fr_inv.state \in {"running", "fatal"} => Len(fr_out) = fr_inv.out0

\* A torn first read was completed by two further reads and its elements
\* were committed.
C3_Witness ==
  /\ fr_inv.state = "committed"
  /\ fr_inv.n2 >= 2
  /\ fr_inv.committed >= 2
  /\ fr_w >= 3

\* C4 as stated: with loop off, once a read has returned zero no later
\* invocation commits any element, whatever the descriptor delivers.
C4_FileReaderEofIsFinal ==
  [][(~fr_loop /\ fr_eof) => Len(fr_out') <= Len(fr_out)]_vars

\* C4 as amended: with loop off, a read that returns zero ends that
\* invocation with nothing committed, and a run commits elements only out of
\* bytes its own reads returned (no end-of-stream state is kept).
C4_FileReaderEofEndsInvocation ==
  ~fr_loop =>
    /\ fr_inv.zero =>
         /\ fr_pc = "idle"
         /\ fr_inv.state = "returned"
         /\ fr_inv.committed = 0
         /\ fr_inv.got = 0
    /\ fr_inv.committed > 0 => (fr_inv.got > 0 /\ ~fr_inv.zero)

\* With loop off and elements committed earlier, a run was ended by a read
\* that returned zero.
C4_Witness ==
  /\ ~fr_loop
  /\ fr_inv.zero
  /\ fr_inv.state = "returned"
  /\ fr_pc = "idle"
  /\ Len(fr_out) >= 1

\* C11: each run of buffer_reader copies min(writable capacity, count - pos)
\* elements from the cursor and advances the cursor by as many; everything
\* produced so far is the source up to the cursor, in order, without repeats
\* or gaps; the cursor never exceeds count, and a run that starts with the
\* cursor at count produces nothing (a 10-element source run with capacity 4
\* and then 10 produces 4, then 6, then 0).
C11_BufferReaderInOrderOnce ==
  /\ br_pos >= 0
  /\ br_pos <= br_count
  /\ br_prod = SubSeq(br_data, 1, br_pos)
  /\ br_last.ran =>
       /\ br_last.n = Min(br_last.W, br_count - br_last.pos0)
       /\ br_last.nprod = br_last.n
       /\ br_pos = br_last.pos0 + br_last.n
       /\ (br_last.pos0 = br_count => br_last.nprod = 0)
       /\ (br_count = 10 /\ br_last.pos0 = 0 /\ br_last.W = 4 => br_last.nprod = 4)
       /\ (br_count = 10 /\ br_last.pos0 = 4 /\ br_last.W = 10 => br_last.nprod = 6)

\* A 10-element source was run with capacity 4 and then with capacity 10:
\* the second run produced the remaining 6 elements.
C11_Witness ==
  /\ br_count = 10
  /\ br_last.ran
  /\ br_last.pos0 = 4
  /\ br_last.W = 10
  /\ br_last.nprod = 6
  /\ br_pos = 10
  /\ br_prod = <<1, 2, 3, 4, 5, 6, 7, 8, 9, 10>>

\* C12: each run of buffer_writer copies min(readable, count - pos) elements
\* into destination indices pos .. pos+n-1, advances the cursor by n and
\* consumes exactly n elements; 0 <= pos <= count always, no index >= count
\* is ever written, no index is written twice, and once the destination is
\* full a run consumes nothing.
C12_BufferWriterFillsOnce ==
  /\ bw_pos >= 0
  /\ bw_pos <= bw_count
  /\ bw_idx = [k \in 1..bw_pos |-> k - 1]
  /\ \A k \in 1..Len(bw_idx) : bw_idx[k] < bw_count
  /\ \A j, k \in 1..Len(bw_idx) : j # k => bw_idx[j] # bw_idx[k]
  /\ \A k \in 1..bw_count : bw_data[k] = IF k <= bw_pos THEN k ELSE 0
  /\ bw_last.ran =>
       /\ bw_last.n = Min(bw_last.R, bw_count - bw_last.pos0)
       /\ bw_last.ncons = bw_last.n
       /\ bw_pos = bw_last.pos0 + bw_last.n
       /\ (bw_last.pos0 = bw_count => bw_last.ncons = 0)

\* A run found more readable elements than free destination slots, filled the
\* destination and left the rest of the input in place.
C12_Witness ==
  /\ bw_count = 3
  /\ bw_last.ran
  /\ bw_last.pos0 = 1
  /\ bw_last.R = 4
  /\ bw_last.ncons = 2
  /\ bw_pos = 3
  /\ bw_data = <<1, 2, 3>>
  /\ bw_in = <<4, 5>>

\* C13: a run of itemcounter that finds output capacity and c > 0 readable
\* elements emits exactly one value equal to c and consumes exactly c
\* elements; a run that finds no output capacity or no input emits and
\* consumes nothing; so the sum of the values emitted always equals the
\* number of input elements consumed.
C13_ItemCounterAllOrNothing ==
  /\ ic_sum = ic_consumed
  /\ ic_last.ran =>
       IF ic_last.W >= 1 /\ ic_last.R > 0
       THEN ic_last.nemit = 1 /\ ic_last.val = ic_last.R /\ ic_last.ncons = ic_last.R
       ELSE ic_last.nemit = 0 /\ ic_last.ncons = 0

\* C14: a run of file_writer issues at most one write, and it asks for all
\* the readable elements; a result of zero, a negative result or a byte count
\* that is not a multiple of the element width is fatal and consumes nothing;
\* any other result consumes exactly (bytes written / width) elements, never
\* more than the bytes written cover.
C14_FileWriterConsumesWritten ==
  /\ (fw_pc = "fatal" => fw_last.fatal # "")
  /\ fw_last.ran =>
       /\ fw_last.calls <= 1
       /\ (fw_last.calls = 0 <=> fw_last.R = 0)
       /\ (fw_last.calls = 0 => fw_last.ncons = 0 /\ fw_last.fatal = "")
       /\ fw_last.calls = 1 =>
            /\ fw_last.asked = fw_last.R * fw_width
            /\ IF fw_last.nw <= 0 \/ fw_last.nw % fw_width # 0
               THEN /\ fw_last.fatal # ""
                    /\ fw_pc = "fatal"
                    /\ fw_last.ncons = 0
                    /\ Len(fw_in) = fw_last.R
               ELSE /\ fw_last.fatal = ""
                    /\ fw_pc = "idle"
                    /\ fw_last.ncons = fw_last.nw \div fw_width
                    /\ fw_last.ncons * fw_width <= fw_last.nw
                    /\ fw_last.ncons <= fw_last.R

\* A write of two 4-byte elements returned 6 bytes: the run ended fatally
\* with both elements still in the input stream.
C14_Witness ==
  /\ fw_width = 4
  /\ fw_last.ran
  /\ fw_last.R = 2
  /\ fw_last.asked = 8
  /\ fw_last.nw = 6
  /\ fw_last.fatal = "partial write"
  /\ fw_pc = "fatal"
  /\ Len(fw_in) = 2

\* The invocation of file_reader the example is about: elements of width 4,
\* 8 bytes requested, and the first read delivered 6 of them.
FileReaderTornCase ==
  /\ fr_w = 4
  /\ fr_size = 8
  /\ fr_inv.any
  /\ fr_inv.first = 6

\* C15 (as stated): with element width 4 and a first read that delivers 6 of
\* the 8 bytes requested, run() performs exactly one additional read for the
\* remaining 2 bytes before committing, and commits exactly 2 elements.
C15_FileReaderOneMoreRead ==
  FileReaderTornCase /\ fr_inv.state = "committed" =>
    fr_inv.n2 = 1 /\ fr_inv.committed = 2

\* C15 (amended): in that case run() commits nothing until both missing bytes
\* have arrived; its first additional read asks for exactly the 2 missing
\* bytes, and a second one asks for the last byte when the first delivered
\* only one; an additional read that fails or delivers nothing is fatal with
\* nothing committed; a commit is of exactly 2 elements, after one or two
\* additional reads.
C15_FileReaderCompletesTornElement ==
  FileReaderTornCase =>
    /\ fr_inv.n2 = Len(fr_inv.asks)
    /\ fr_inv.n2 <= 2
    /\ (fr_inv.n2 >= 1 => fr_inv.asks[1] = 2)
    /\ (fr_inv.n2 = 2 => fr_inv.asks[2] = 1)
    /\ (fr_pc = "partial" =>
          /\ fr_nr + fr_remain = 8
          /\ fr_remain \in 1..2
          /\ fr_inv.committed = 0
          /\ Len(fr_out) = fr_inv.out0)
    /\ (fr_inv.state = "fatal" =>
          /\ fr_inv.bad2
          /\ fr_inv.committed = 0
          /\ Len(fr_out) = fr_inv.out0)
    /\ (fr_inv.state = "committed" =>
          /\ fr_inv.n2 \in 1..2
          /\ fr_inv.got = 8
          /\ fr_inv.committed = 2)
    /\ fr_inv.state \in {"running", "fatal", "committed"}

\* The first read delivered 6 of 8 bytes, the next two delivered one byte
\* each, and the run committed 2 elements.
C15_Witness ==
  /\ FileReaderTornCase
  /\ fr_inv.state = "committed"
  /\ fr_inv.asks = <<2, 1>>
  /\ fr_inv.committed = 2

\* C16: every run of file_carrayprinter consumes all the readable elements;
\* with nothing readable or without a destination handle it writes nothing;
\* otherwise it writes the head for the count n, then one record per element
\* in input order, then the tail, and then flushes.
C16_CArrayPrinterConsumesAll ==
  cp_last.ran =>
    LET n == Len(cp_last.buf)
        ops == cp_last.ops
    IN /\ cp_last.ncons = n
       /\ IF n = 0 \/ ~cp_fout
          THEN ops = <<>>
          ELSE /\ Len(ops) = n + 3
               /\ ops[1] = <<"head", n, 0>>
               /\ \A k \in 1..n :
                    ops[1 + k] = <<"elem", cp_last.buf[k].re * cp_scale,
                                   cp_last.buf[k].im * cp_scale>>
               /\ ops[n + 2] = <<"tail", 0, 0>>
               /\ ops[n + 3] = <<"flush", 0, 0>>

\* A run with a destination handle printed two elements between head and
\* tail and consumed them.
C16_Witness ==
  /\ cp_fout
  /\ cp_scale = 2
  /\ cp_last.ran
  /\ cp_last.ncons = 2
  /\ cp_last.ops = << <<"head", 2, 0>>, <<"elem", 6, -6>>, <<"elem", 8, -8>>,
                      <<"tail", 0, 0>>, <<"flush", 0, 0>> >>

\* C17: every invocation of file_reader::run ends, by returning or by a
\* fatal error, after finitely many descriptor calls, also when the loop
\* option is on and the source keeps delivering zero bytes after each
\* successful reposition to its start.
C17_FileReaderRunEnds ==
  (fr_pc \in {"again", "lseek", "partial"}) ~> (fr_pc \in {"idle", "fatal"})

\* C19: with sample_size > 0 fixed, between runs of rate_estimator the
\* denominator sum is strictly below sample_size (still accumulating, or
\* just zeroed together with the numerator sum), so every ratio emitted has
\* a denominator sum of at least sample_size and never zero.
C19_RateDenBelowThreshold ==
  /\ re_sample_size > 0
  /\ re_acc_den < re_sample_size
  /\ (re_last.nemit = 1 => re_acc_num = 0 /\ re_acc_den = 0)
  /\ \A j \in 1..Len(re_emitted) :
       /\ re_emitted[j].val.d >= re_sample_size
       /\ re_emitted[j].val.d # 0

\* After an emission, a later run consumed a pair whose denominator moved
\* the sum off zero without reaching the threshold.
C19_Witness ==
  /\ Len(re_emitted) >= 1
  /\ re_last.ran
  /\ re_last.cden >= 1
  /\ re_last.nemit = 0
  /\ re_last.accd0 = 0
  /\ re_acc_den # 0

\* The destination is a prefix of source[0], source[d], source[2d], ...
PipelinePrefix ==
  /\ pl_wpos \in 0..Len(pl_dst)
  /\ \A k \in 1..Len(pl_dst) :
       pl_dst[k] = IF k <= pl_wpos THEN pl_src[(k - 1) * pl_d + 1] ELSE 0

\* No run() of the pipeline has anything left to do, and the destination
\* holds min(M, floor(N/d)) elements.
PipelineDone ==
  /\ pl_wpos = Min(Len(pl_dst), Len(pl_src) \div pl_d)
  /\ BufferReaderN(PipelineWritable(pl_s1), Len(pl_src), pl_rpos) = 0
  /\ DecimatorCount(readable(pl_s1), PipelineWritable(pl_s2), pl_d) = 0
  /\ BufferWriterN(readable(pl_s2), Len(pl_dst), pl_wpos) = 0

\* C20: in the pipeline buffer_reader -> decimator(d) -> buffer_writer over
\* streams of capacity >= d, whatever the order of the runs, the destination
\* is always a prefix of source[0], source[d], source[2d], ...; if every
\* block keeps being run, the destination eventually holds exactly
\* min(M, floor(N/d)) elements, and the pipeline then no longer changes.
C20_PipelineDecimatesEndToEnd ==
  /\ []PipelinePrefix
  /\ <>[]PipelineDone
  /\ [][PipelineDone => UNCHANGED plVars]_vars

\* A 6-element source decimated by 2 into a 2-element destination: the
\* pipeline came to rest with source[0], source[2] in the destination, fewer
\* than the 3 elements the decimator can forward.
C20_Witness ==
  /\ PipelineDone
  /\ Len(pl_src) = 6
  /\ pl_d = 2
  /\ pl_dst = <<1, 3>>
  /\ pl_wpos = 2

\* C18: in every run of every block, the elements committed as written to
\* an output stream are at most the writable capacity the stream reported
\* at the start of the run, and the elements committed as read from an
\* input stream are at most the readable count reported at its start.
C18_CommitsWithinReported ==
  /\ fr_inv.committed <= StreamCap - fr_inv.out0
  /\ br_last.nprod <= br_last.W
  /\ fw_last.ncons <= fw_last.R
  /\ bw_last.ncons <= bw_last.R
  /\ fp_last.consumed <= fp_last.n
  /\ cp_last.ncons <= Len(cp_last.buf)
  /\ ic_last.nemit <= ic_last.W
  /\ ic_last.ncons <= ic_last.R
  /\ dec_last.nfwd <= dec_last.W
  /\ dec_last.ncons <= dec_last.R
  /\ re_last.nemit <= re_last.W
  /\ re_last.cnum <= re_last.Rn
  /\ re_last.cden <= re_last.Rd
  /\ ser_last.nprod <= ser_last.W
  /\ ser_last.ncons <= ser_last.R

\* A decimator run found more complete groups than writable capacity and
\* forwarded exactly as many elements as the capacity allowed.
C18_Witness ==
  /\ dec_last.ran
  /\ dec_last.W >= 1
  /\ dec_last.R \div dec_d > dec_last.W
  /\ dec_last.nfwd = dec_last.W
  /\ dec_last.ncons = dec_last.W * dec_d

====
